---- MODULE Spec2Model ----
(***************************************************************************)
(* VSOP87D: heliocentric ecliptic spherical coordinates of the eight       *)
(* planets (src/src/vsop87d/mod.rs).                                       *)
(*                                                                         *)
(* Arithmetic.  The code computes in f64.  The model computes the same     *)
(* IEEE-754 binary64 values: a finite f64 is held as sign, significand and *)
(* binary exponent, and +, -, *, / and % give the correctly rounded        *)
(* (round to nearest, ties to even) result, bit for bit.  PI is the f64    *)
(* constant of the standard library, so 2 * PI is an f64 too and not the   *)
(* real number; sums of multiples of it round as they do in the code.      *)
(* Two library functions have no precision the language fixes: powi is     *)
(* modelled as the square-and-multiply sequence of f64 products that the   *)
(* build emits for a small constant exponent, and cos is computed only     *)
(* where its correctly rounded value is 1 or -1 (arguments within 2^-28 of *)
(* a multiple of PI); elsewhere its value is "unknown".                    *)
(*                                                                         *)
(* State.  The planet functions are pure and the coefficient data they     *)
(* read is a constant ("tables"); the state of the model is a history of   *)
(* the calls made so far: the first call, the latest call, and how many    *)
(* calls there have been (counted up to MaxCalls).                         *)
(***************************************************************************)
EXTENDS Integers, Sequences, FiniteSets

VARIABLES first, last, n

vars == <<first, last, n>>

(* ---------------------------------------------------------------------- *)
(* Bounds of the model.                                                    *)
(* ---------------------------------------------------------------------- *)

\* Whole millennia from J2000 among the Julian Days: k in -1..MaxT.
MaxT == 2

\* The call counter n stops counting at MaxCalls.
MaxCalls == 3

\* The record of one call in the history: the planet function called, its
\* argument and what it returned.
Call(planet, jde, result) == [planet |-> planet, jde |-> jde, result |-> result]

(* ---------------------------------------------------------------------- *)
(* Natural numbers of any size, as little-endian sequences of limbs in     *)
(* base 2^15 with no leading zero limb (zero is the empty sequence): the   *)
(* 53-bit significands of f64 values and the wider exact sums, products    *)
(* and quotients that are rounded to them.                                 *)
(* ---------------------------------------------------------------------- *)

Base == 32768

LimbBits == 15

Max(i, j) == IF i >= j THEN i ELSE j

Min(i, j) == IF i <= j THEN i ELSE j

Pow2(k) == 2 ^ k

\* The largest member of a finite set of integers that has one
Largest(S) == CHOOSE i \in S : \A j \in S : j <= i

\* a without its leading zero limbs
NatTrim(a) ==
    LET used == {i \in 1..Len(a) : a[i] # 0}
    IN  IF used = {} THEN <<>> ELSE SubSeq(a, 1, Largest(used))

RECURSIVE NatOfInt(_)
NatOfInt(i) == IF i = 0 THEN <<>> ELSE <<i % Base>> \o NatOfInt(i \div Base)

Limb(a, i) == IF 1 <= i /\ i <= Len(a) THEN a[i] ELSE 0

RECURSIVE AddFrom(_, _, _, _)
AddFrom(a, b, i, carry) ==
    IF i > Len(a) /\ i > Len(b)
    THEN IF carry = 0 THEN <<>> ELSE <<carry>>
    ELSE LET s == Limb(a, i) + Limb(b, i) + carry
         IN  <<s % Base>> \o AddFrom(a, b, i + 1, s \div Base)

NatAdd(a, b) == AddFrom(a, b, 1, 0)

RECURSIVE SubFrom(_, _, _, _)
SubFrom(a, b, i, borrow) ==
    IF i > Len(a) THEN <<>>
    ELSE LET s == a[i] - Limb(b, i) - borrow
         IN  IF s < 0 THEN <<s + Base>> \o SubFrom(a, b, i + 1, 1)
             ELSE <<s>> \o SubFrom(a, b, i + 1, 0)

\* a - b for a >= b
NatSub(a, b) == NatTrim(SubFrom(a, b, 1, 0))

RECURSIVE CmpFrom(_, _, _)
CmpFrom(a, b, i) ==
    IF i = 0 THEN 0
    ELSE IF a[i] > b[i] THEN 1
    ELSE IF a[i] < b[i] THEN 0 - 1
    ELSE CmpFrom(a, b, i - 1)

\* -1, 0 or 1 as a < b, a = b or a > b
NatCmp(a, b) ==
    IF Len(a) > Len(b) THEN 1
    ELSE IF Len(a) < Len(b) THEN 0 - 1
    ELSE CmpFrom(a, b, Len(a))

RECURSIVE MulSmallFrom(_, _, _, _)
MulSmallFrom(a, d, i, carry) ==
    IF i > Len(a)
    THEN IF carry = 0 THEN <<>> ELSE <<carry>>
    ELSE LET s == a[i] * d + carry
         IN  <<s % Base>> \o MulSmallFrom(a, d, i + 1, s \div Base)

\* a * d for a limb d
NatMulSmall(a, d) == IF d = 0 \/ a = <<>> THEN <<>> ELSE MulSmallFrom(a, d, 1, 0)

\* a * Base^k
ShiftLimbs(a, k) == IF a = <<>> THEN <<>> ELSE [i \in 1..k |-> 0] \o a

RECURSIVE MulFrom(_, _, _)
MulFrom(a, b, i) ==
    IF i > Len(b) THEN <<>>
    ELSE NatAdd(ShiftLimbs(NatMulSmall(a, b[i]), i - 1), MulFrom(a, b, i + 1))

NatMul(a, b) == MulFrom(a, b, 1)

\* a * 2^k
NatShl(a, k) == ShiftLimbs(NatMulSmall(a, Pow2(k % LimbBits)), k \div LimbBits)

\* The floor of a / 2^k
NatShr(a, k) ==
    LET q == k \div LimbBits
        r == k % LimbBits
    IN  IF q >= Len(a) THEN <<>>
        ELSE NatTrim([i \in 1..(Len(a) - q) |->
                        (a[i + q] \div Pow2(r))
                            + (Limb(a, i + q + 1) % Pow2(r)) * Pow2(LimbBits - r)])

\* The number of bits of a limb d
BitLenSmall(d) == CHOOSE k \in 0..LimbBits : d < Pow2(k) /\ (k = 0 \/ d >= Pow2(k - 1))

\* The number of bits of a
NatBitLen(a) ==
    IF a = <<>> THEN 0 ELSE LimbBits * (Len(a) - 1) + BitLenSmall(a[Len(a)])

\* Bit i of a, bit 0 the lowest
NatBit(a, i) == (Limb(a, (i \div LimbBits) + 1) \div Pow2(i % LimbBits)) % 2

NatOdd(a) == NatBit(a, 0) = 1

\* The limb floor(r / b) for r < b * Base and b with its top bit set in its
\* top limb: the quotient of the two top limbs of r by the top limb of b is
\* that limb or exceeds it by at most 2.
QuotLimb(r, b) ==
    LET top == Limb(r, Len(b) + 1) * Base + Limb(r, Len(b))
        est == Min(top \div b[Len(b)], Base - 1)
    IN  IF NatCmp(r, b) < 0 THEN 0
        ELSE IF NatCmp(NatMulSmall(b, est), r) <= 0 THEN est
        ELSE IF NatCmp(NatMulSmall(b, est - 1), r) <= 0 THEN est - 1
        ELSE est - 2

\* Long division of a by b from limb i of a downwards; q holds the limbs of
\* the quotient found so far and r the remainder so far.
RECURSIVE DivFrom(_, _, _, _, _)
DivFrom(a, b, i, q, r) ==
    IF i = 0 THEN [quot |-> NatTrim(q), rem |-> r]
    ELSE IF r = <<>> /\ a[i] = 0 THEN DivFrom(a, b, i - 1, <<0>> \o q, r)
    ELSE LET r1 == NatTrim(<<a[i]>> \o r)
             d == QuotLimb(r1, b)
         IN  DivFrom(a, b, i - 1, <<d>> \o q, NatSub(r1, NatMulSmall(b, d)))

\* The floor of a / b and the remainder, for b > 0, by long division of
\* a * 2^k by b * 2^k, with k such that the top limb of b * 2^k has its top
\* bit set.
NatDivMod(a, b) ==
    LET k == LimbBits - BitLenSmall(b[Len(b)])
        as == NatShl(a, k)
        qr == DivFrom(as, NatShl(b, k), Len(as), <<>>, <<>>)
    IN  [quot |-> qr.quot, rem |-> NatShr(qr.rem, k)]

(* ---------------------------------------------------------------------- *)
(* f64 values: IEEE-754 binary64.  A finite value is                       *)
(* (-1)^sign * mant * 2^exp with mant below 2^53, kept in the one form     *)
(* with mant of 53 bits (a normal number) or exp = -1074 (a subnormal      *)
(* number), or with mant = 0 and exp = 0 (a zero).  The other classes are  *)
(* the infinities, NaN (its sign and payload are not kept), and two        *)
(* classes for what the model does not determine: "nonfinite" (an infinity *)
(* or NaN) and "unknown" (any f64).  The operators round to nearest, ties  *)
(* to even, as the operations of the compiled code do.                     *)
(* ---------------------------------------------------------------------- *)

MantBits == 53

MinExp == 0 - 1074

MaxExp == 971

Float(s, m, e) == <<"fin", s, m, e>>

Zero(s) == <<"fin", s, <<>>, 0>>

Inf(s) == <<"inf", s, <<>>, 0>>

NaN == <<"nan", 0, <<>>, 0>>

\* +inf, -inf or NaN: a value the model determines to be one of the three
\* without determining which.
NonFinite == <<"nonfinite", 0, <<>>, 0>>

\* An f64, finite or not, that the model does not determine.
Unknown == <<"unknown", 0, <<>>, 0>>

Class(x) == x[1]

Sign(x) == x[2]

Mant(x) == x[3]

Exp(x) == x[4]

IsZero(x) == Class(x) = "fin" /\ Mant(x) = <<>>

IsNat(a) == /\ DOMAIN a = 1..Len(a)
            /\ \A i \in 1..Len(a) : a[i] \in 0..(Base - 1)
            /\ (Len(a) > 0 => a[Len(a)] # 0)

IsF64(x) ==
    /\ DOMAIN x = 1..4
    /\ Class(x) \in {"fin", "inf", "nan", "nonfinite", "unknown"}
    /\ Sign(x) \in {0, 1}
    /\ IsNat(Mant(x))
    /\ NatBitLen(Mant(x)) <= MantBits
    /\ Exp(x) \in MinExp..MaxExp

\* A test on f64 values (is_finite, >, ==, >=) is modelled by the set of the
\* outcomes it can have: {TRUE} or {FALSE} where the operands determine it,
\* and both where an operand is a value the model does not determine.
\* Holds: the test has the one outcome true; Fails: the one outcome false.
Holds(c) == c = {TRUE}

Fails(c) == c = {FALSE}

\* The value of "if c { x } else { y }": the branch the test selects, and
\* where the test is not determined a value that covers both branches.
IfElse(c, x, y) ==
    IF Holds(c) THEN x
    ELSE IF Fails(c) THEN y
    ELSE IF x = y THEN x
    ELSE Unknown

\* The value is one of the f64 the model determines: a finite value, an
\* infinity or NaN.
Determined(x) == Class(x) \in {"fin", "inf", "nan"}

\* f64::is_finite: true for a finite value, false for an infinity and for
\* NaN, both outcomes for a value the model does not determine.
Finite(x) == IF Class(x) = "unknown" THEN BOOLEAN ELSE {Class(x) = "fin"}

\* The f64 nearest to (-1)^s * (N + f) * 2^e for N > 0, where f = 0 if
\* sticky is false and 0 < f < 1 if it is true (N then has more than 54 bits).
Round(s, N, e, sticky) ==
    LET len == NatBitLen(N)
        drop == Max(len - MantBits, MinExp - e)
    IN  IF drop <= 0
        THEN LET k == Min(MantBits - len, e - MinExp)
             IN  IF e - k > MaxExp THEN Inf(s) ELSE Float(s, NatShl(N, k), e - k)
        ELSE LET q == NatShr(N, drop)
                 rest == NatSub(N, NatShl(q, drop))
                 c == NatCmp(rest, NatShl(<<1>>, drop - 1))
                 up == c > 0 \/ (c = 0 /\ (sticky \/ NatOdd(q)))
                 q1 == IF up THEN NatAdd(q, <<1>>) ELSE q
                 carry == NatBitLen(q1) > MantBits
                 m == IF carry THEN NatShr(q1, 1) ELSE q1
                 ex == IF carry THEN e + drop + 1 ELSE e + drop
             IN  IF m = <<>> THEN Zero(s)
                 ELSE IF ex > MaxExp THEN Inf(s)
                 ELSE Float(s, m, ex)

\* The integer i as an f64 (exact: |i| is below 2^31).
F(i) ==
    IF i = 0 THEN Zero(0)
    ELSE IF i < 0 THEN Round(1, NatOfInt(0 - i), 0, FALSE)
    ELSE Round(0, NatOfInt(i), 0, FALSE)

\* -a
fneg(a) == IF Class(a) \in {"fin", "inf"} THEN <<Class(a), 1 - Sign(a), Mant(a), Exp(a)>> ELSE a

\* |a| < |b|, |a| = |b| or |a| > |b| for finite a and b: -1, 0 or 1
CmpMag(a, b) ==
    IF Mant(a) = <<>> \/ Mant(b) = <<>>
    THEN NatCmp(Mant(a), Mant(b))
    ELSE IF Exp(a) > Exp(b) THEN 1
    ELSE IF Exp(a) < Exp(b) THEN 0 - 1
    ELSE NatCmp(Mant(a), Mant(b))

\* The sum of the finite nonzero x and y, Exp(x) >= Exp(y).
AddAligned(x, y) ==
    LET d == Exp(x) - Exp(y)
    IN  IF d > 60
        THEN IF Sign(x) = Sign(y)
             THEN Round(Sign(x), NatShl(Mant(x), 3), Exp(x) - 3, TRUE)
             ELSE Round(Sign(x), NatSub(NatShl(Mant(x), 3), <<1>>), Exp(x) - 3, TRUE)
        ELSE LET X == NatShl(Mant(x), d)
                 c == NatCmp(X, Mant(y))
             IN  IF Sign(x) = Sign(y) THEN Round(Sign(x), NatAdd(X, Mant(y)), Exp(y), FALSE)
                 ELSE IF c = 0 THEN Zero(0)
                 ELSE IF c > 0 THEN Round(Sign(x), NatSub(X, Mant(y)), Exp(y), FALSE)
                 ELSE Round(Sign(y), NatSub(Mant(y), X), Exp(y), FALSE)

\* a + b
fadd(a, b) ==
    IF Class(a) = "nan" \/ Class(b) = "nan" THEN NaN
    ELSE IF Class(a) = "nonfinite" \/ Class(b) = "nonfinite" THEN NonFinite
    ELSE IF Class(a) = "unknown" \/ Class(b) = "unknown"
         THEN IF Class(a) = "inf" \/ Class(b) = "inf" THEN NonFinite ELSE Unknown
    ELSE IF Class(a) = "inf"
         THEN IF Class(b) = "inf" /\ Sign(a) # Sign(b) THEN NaN ELSE a
    ELSE IF Class(b) = "inf" THEN b
    ELSE IF IsZero(a) /\ IsZero(b) THEN Zero(IF Sign(a) = Sign(b) THEN Sign(a) ELSE 0)
    ELSE IF IsZero(a) THEN b
    ELSE IF IsZero(b) THEN a
    ELSE IF Exp(a) >= Exp(b) THEN AddAligned(a, b)
    ELSE AddAligned(b, a)

\* a - b
fsub(a, b) == fadd(a, fneg(b))

\* a * b
fmul(a, b) ==
    LET s == (Sign(a) + Sign(b)) % 2
    IN  IF Class(a) = "nan" \/ Class(b) = "nan" THEN NaN
        ELSE IF Class(a) = "nonfinite" \/ Class(b) = "nonfinite" THEN NonFinite
        ELSE IF Class(a) = "unknown" \/ Class(b) = "unknown"
             THEN IF Class(a) = "inf" \/ Class(b) = "inf" THEN NonFinite ELSE Unknown
        ELSE IF Class(a) = "inf" \/ Class(b) = "inf"
             THEN IF IsZero(a) \/ IsZero(b) THEN NaN ELSE Inf(s)
        ELSE IF IsZero(a) \/ IsZero(b) THEN Zero(s)
        ELSE Round(s, NatMul(Mant(a), Mant(b)), Exp(a) + Exp(b), FALSE)

\* a / b
fdiv(a, b) ==
    LET s == (Sign(a) + Sign(b)) % 2
    IN  IF Class(a) = "nan" \/ Class(b) = "nan" THEN NaN
        ELSE IF Class(a) = "nonfinite" THEN NonFinite
        ELSE IF Class(a) = "unknown" \/ Class(b) \in {"nonfinite", "unknown"} THEN Unknown
        ELSE IF Class(a) = "inf" THEN IF Class(b) = "inf" THEN NaN ELSE Inf(s)
        ELSE IF Class(b) = "inf" THEN Zero(s)
        ELSE IF IsZero(b) THEN IF IsZero(a) THEN NaN ELSE Inf(s)
        ELSE IF IsZero(a) THEN Zero(s)
        ELSE LET k == 2 * MantBits + 2 - NatBitLen(Mant(a))
                 qr == NatDivMod(NatShl(Mant(a), k), Mant(b))
             IN  Round(s, qr.quot, Exp(a) - Exp(b) - k, qr.rem # <<>>)

\* 2^d modulo m, by squaring
RECURSIVE PowMod2(_, _)
PowMod2(d, m) ==
    IF d = 0 THEN NatDivMod(<<1>>, m).rem
    ELSE LET h == PowMod2(d \div 2, m)
             sq == IF h = <<>> THEN <<>> ELSE NatDivMod(NatMul(h, h), m).rem
         IN  IF sq = <<>> THEN <<>>
             ELSE IF d % 2 = 1 THEN NatDivMod(NatShl(sq, 1), m).rem
             ELSE sq

\* The f64 remainder x % m (fmod): x - n * m for the integer n that is
\* x / m rounded toward zero, computed exactly; it has the sign of x.
frem(x, m) ==
    IF Class(x) = "nan" \/ Class(m) = "nan" THEN NaN
    ELSE IF Class(x) \in {"inf", "nonfinite"} THEN NaN
    ELSE IF Class(x) = "unknown" \/ Class(m) \in {"nonfinite", "unknown"} THEN Unknown
    ELSE IF IsZero(m) THEN NaN
    ELSE IF Class(m) = "inf" \/ IsZero(x) THEN x
    ELSE IF CmpMag(x, m) < 0 THEN x
    ELSE LET r == IF Exp(x) >= Exp(m)
                  THEN NatDivMod(NatMul(Mant(x), PowMod2(Exp(x) - Exp(m), Mant(m))), Mant(m)).rem
                  ELSE NatDivMod(Mant(x), NatShl(Mant(m), Exp(m) - Exp(x))).rem
             e == Min(Exp(x), Exp(m))
         IN  IF r = <<>> THEN Zero(Sign(x)) ELSE Round(Sign(x), r, e, FALSE)

\* a > b; false where either is NaN.  Where the model does not determine a
\* or b it does not determine the comparison either: both outcomes.
fgt(a, b) ==
    IF Class(a) = "nan" \/ Class(b) = "nan" THEN {FALSE}
    ELSE IF ~Determined(a) \/ ~Determined(b) THEN BOOLEAN
    ELSE IF IsZero(a) /\ IsZero(b) THEN {FALSE}
    ELSE IF Sign(a) # Sign(b) THEN {Sign(a) = 0}
    ELSE IF Class(a) = "inf" THEN {Class(b) = "fin" /\ Sign(a) = 0}
    ELSE IF Class(b) = "inf" THEN {Sign(a) = 1}
    ELSE IF Sign(a) = 0 THEN {CmpMag(a, b) > 0} ELSE {CmpMag(a, b) < 0}

\* a == b as f64 compare: false where either is NaN, true for 0.0 and -0.0;
\* both outcomes where the model does not determine a or b.
feq(a, b) ==
    IF Class(a) = "nan" \/ Class(b) = "nan" THEN {FALSE}
    ELSE IF ~Determined(a) \/ ~Determined(b) THEN BOOLEAN
    ELSE {(IsZero(a) /\ IsZero(b)) \/ a = b}

\* a >= b: a > b or a == b; false where either is NaN, both outcomes where
\* the model does not determine a or b.
fge(a, b) == {gt \/ eq : gt \in fgt(a, b), eq \in feq(a, b)}

\* |a|
fabs(a) == IF Class(a) \in {"fin", "inf"} THEN <<Class(a), 0, Mant(a), Exp(a)>> ELSE a

(* ---------------------------------------------------------------------- *)
(* Constants and inputs.                                                   *)
(* ---------------------------------------------------------------------- *)

\* The natural number hi * 10^9 + lo, written in two parts of nine decimal
\* digits.
NatOfDecimal(hi, lo) == NatAdd(NatMul(NatOfInt(hi), NatOfInt(1000000000)), NatOfInt(lo))

\* std::f64::consts::PI = 3.141592653589793 = 7074237752028440 * 2^-51
PI == Float(0, NatOfDecimal(7074237, 752028440), 0 - 51)

\* PI / 2, an f64 (halving is exact)
HalfPi == fdiv(PI, F(2))

\* The finite f64 1e300 = 6724873095247260 * 2^944, a Julian Day whose t is
\* finite and whose t * t overflows.
Big == Float(0, NatOfDecimal(6724873, 95247260), 944)

\* The Julian Day of the epoch J2000.0: t is 0 there.
J2000 == 2451545

DAYS_PER_MILLENNIUM == 365250

\* The Julian Days of the documented examples of the eight functions.
ExampleDays ==
    {2378495, 2341970, 2305445, 2268920, 2232395, 2195870, 2159345, 2122820}

Planets ==
    {"mercury", "venus", "earth", "mars", "jupiter", "saturn", "uranus", "neptune"}

Coordinates == {"L", "B", "R"}

Powers == 0..5

\* The Julian Days of the model: whole millennia from J2000, the days of
\* the documented examples, and the finite Julian Day 1e300.
JulianDays ==
    {F(J2000 + DAYS_PER_MILLENNIUM * k) : k \in (0 - 1)..MaxT}
        \cup {F(d) : d \in ExampleDays} \cup {Big}

(* ---------------------------------------------------------------------- *)
(* Coefficient data: for each planet, coordinate and power of t, a         *)
(* sequence of terms (amplitude, phase, frequency).  The published tables  *)
(* are external data; the model reads small tables that differ from planet *)
(* to planet, coordinate to coordinate and power to power, and that hold   *)
(* terms in every slot, also in the slots a planet function never reads.   *)
(* Amplitudes are f64 multiples of PI / 2 and phases and frequencies f64   *)
(* multiples of PI, the frequencies of 10 * PI or 20 * PI per millennium,  *)
(* so that at every t in tenths of a millennium the angle                  *)
(* phase + frequency * t lies, up to its rounding, on a multiple of PI.    *)
(* ---------------------------------------------------------------------- *)

PlanetIdx(p) ==
    CASE p = "mercury" -> 0
      [] p = "venus"   -> 1
      [] p = "earth"   -> 2
      [] p = "mars"    -> 3
      [] p = "jupiter" -> 4
      [] p = "saturn"  -> 5
      [] p = "uranus"  -> 6
      [] p = "neptune" -> 7

CoordIdx(c) ==
    CASE c = "L" -> 0
      [] c = "B" -> 1
      [] c = "R" -> 2

\* The term with amplitude a * (PI / 2), phase b * PI and frequency c * PI.
Term(a, b, c) ==
    [amplitude |-> fmul(F(a), HalfPi), phase |-> fmul(F(b), PI), frequency |-> fmul(F(c), PI)]

\* The static coefficient data of the program: every slot holds a constant
\* term (frequency 0) and a periodic term; amplitudes and phases vary with
\* the planet, the coordinate and the power.
tables ==
    [p \in Planets |->
      [c \in Coordinates |->
        [k \in Powers |->
          LET i == PlanetIdx(p)
              j == CoordIdx(c)
          IN  << Term(1 + ((2 * j + k) % 3), (i + j + k) % 2, 0),
                 Term(((2 * i + k) % 5) - 2, j % 2, 10 * (1 + (i % 2))) >>]]]

(* ---------------------------------------------------------------------- *)
(* The engine's primitives.                                                *)
(* ---------------------------------------------------------------------- *)

\* floor(|x| * 2^40) for a finite x
Fixed40(x) ==
    IF Exp(x) + 40 >= 0 THEN NatShl(Mant(x), Exp(x) + 40)
    ELSE NatShr(Mant(x), 0 - (Exp(x) + 40))

\* floor(PI * 2^40)
PI40 == NatShr(Mant(PI), 11)

\* f64::cos.  NaN on inf and NaN; 1 on zero.  On a finite x of magnitude below 2^20
\* that lies within (4096 - j) * 2^-40 of j * PI, the cosine is within
\* 2^-57 of 1 (j even) or -1 (j odd) and every faithful cos returns exactly
\* that; on other finite x the model does not determine the value.
cos(x) ==
    IF Class(x) \in {"nan", "inf", "nonfinite"} THEN NaN
    ELSE IF Class(x) = "unknown" THEN Unknown
    ELSE IF IsZero(x) THEN F(1)
    ELSE IF Exp(x) + MantBits > 20 THEN Unknown
    ELSE LET X == Fixed40(x)
             j == NatDivMod(NatAdd(X, NatShr(PI40, 1)), PI40).quot
             jp == NatMul(j, PI40)
             D == IF NatCmp(X, jp) >= 0 THEN NatSub(X, jp) ELSE NatSub(jp, X)
         IN  IF NatCmp(NatAdd(D, j), NatOfInt(4096)) < 0
             THEN IF NatOdd(j) THEN F(0 - 1) ELSE F(1)
             ELSE Unknown

\* t = (jde - 2451545.0) / 365250.0
calculate_t(jde) == fdiv(fsub(jde, F(J2000)), F(DAYS_PER_MILLENNIUM))

\* The sum of the first i terms, accumulated from 0.0 in sequence order.
RECURSIVE SumTerms(_, _, _)
SumTerms(t, terms, i) ==
    IF i = 0 THEN F(0)
    ELSE fadd(SumTerms(t, terms, i - 1),
              fmul(terms[i].amplitude,
                   cos(fadd(terms[i].phase, fmul(terms[i].frequency, t)))))

\* The sum over the terms, in sequence order, of amplitude * cos(phase + frequency * t).
calculate_var(t, terms) == SumTerms(t, terms, Len(terms))

\* The multiply loop of powi: r * a^b for b >= 1, by squaring.
RECURSIVE powi_loop(_, _, _)
powi_loop(a, b, r) ==
    LET r1 == IF b % 2 = 1 THEN fmul(r, a) ELSE r
    IN  IF b \div 2 = 0 THEN r1 ELSE powi_loop(fmul(a, a), b \div 2, r1)

\* f64::powi(x, k) for k >= 0: the products r *= a (where the low bit of
\* the exponent is set) and a *= a, from r = 1.0, each rounded to f64.
powi(x, k) == IF k = 0 THEN F(1) ELSE powi_loop(x, k, F(1))

SphericalCoordinates(lon, lat, dist) == [lon |-> lon, lat |-> lat, dist |-> dist]

(* ---------------------------------------------------------------------- *)
(* The per-planet functions.                                               *)
(* ---------------------------------------------------------------------- *)

\* mercury, with no result where the reduced longitude is neither positive
\* nor negative (zero, or NaN).
mercury_partial(jde) ==
    LET t == calculate_t(jde)
        l0 == calculate_var(t, tables["mercury"]["L"][0])
        l1 == calculate_var(t, tables["mercury"]["L"][1])
        l2 == calculate_var(t, tables["mercury"]["L"][2])
        l3 == calculate_var(t, tables["mercury"]["L"][3])
        l4 == calculate_var(t, tables["mercury"]["L"][4])
        l5 == calculate_var(t, tables["mercury"]["L"][5])
        b0 == calculate_var(t, tables["mercury"]["B"][0])
        b1 == calculate_var(t, tables["mercury"]["B"][1])
        b2 == calculate_var(t, tables["mercury"]["B"][2])
        b3 == calculate_var(t, tables["mercury"]["B"][3])
        b4 == calculate_var(t, tables["mercury"]["B"][4])
        b5 == calculate_var(t, tables["mercury"]["B"][5])
        r0 == calculate_var(t, tables["mercury"]["R"][0])
        r1 == calculate_var(t, tables["mercury"]["R"][1])
        r2 == calculate_var(t, tables["mercury"]["R"][2])
        r3 == calculate_var(t, tables["mercury"]["R"][3])
        r4 == calculate_var(t, tables["mercury"]["R"][4])
        l == frem(fadd(fadd(fadd(fadd(fadd(l0,
                 fmul(l1, t)),
                 fmul(fmul(l2, t), t)),
                 fmul(l3, powi(t, 3))),
                 fmul(l4, powi(t, 4))),
                 fmul(l5, powi(t, 5))),
                 fmul(F(2), PI))
        b == fadd(fadd(fadd(fadd(fadd(b0,
                 fmul(b1, t)),
                 fmul(fmul(b2, t), t)),
                 fmul(b3, powi(t, 3))),
                 fmul(b4, powi(t, 4))),
                 fmul(b5, powi(t, 5)))
        r == fadd(fadd(fadd(fadd(r0,
                 fmul(r1, t)),
                 fmul(fmul(r2, t), t)),
                 fmul(r3, powi(t, 3))),
                 fmul(r4, powi(t, 4)))
    IN  IF Fails(fgt(l, F(0))) /\ Fails(fgt(F(0), l)) THEN [error |-> "no result"]
        ELSE SphericalCoordinates(IfElse(fgt(l, F(0)), l, fadd(fmul(F(2), PI), l)), b, r)

\* mercury, with the series of B1 and R0 evaluated at jde in place of t.
mercury_jde_slot(jde) ==
    LET t == calculate_t(jde)
        l0 == calculate_var(t, tables["mercury"]["L"][0])
        l1 == calculate_var(t, tables["mercury"]["L"][1])
        l2 == calculate_var(t, tables["mercury"]["L"][2])
        l3 == calculate_var(t, tables["mercury"]["L"][3])
        l4 == calculate_var(t, tables["mercury"]["L"][4])
        l5 == calculate_var(t, tables["mercury"]["L"][5])
        b0 == calculate_var(t, tables["mercury"]["B"][0])
        b1 == calculate_var(jde, tables["mercury"]["B"][1])
        b2 == calculate_var(t, tables["mercury"]["B"][2])
        b3 == calculate_var(t, tables["mercury"]["B"][3])
        b4 == calculate_var(t, tables["mercury"]["B"][4])
        b5 == calculate_var(t, tables["mercury"]["B"][5])
        r0 == calculate_var(jde, tables["mercury"]["R"][0])
        r1 == calculate_var(t, tables["mercury"]["R"][1])
        r2 == calculate_var(t, tables["mercury"]["R"][2])
        r3 == calculate_var(t, tables["mercury"]["R"][3])
        r4 == calculate_var(t, tables["mercury"]["R"][4])
        l == frem(fadd(fadd(fadd(fadd(fadd(l0,
                 fmul(l1, t)),
                 fmul(fmul(l2, t), t)),
                 fmul(l3, powi(t, 3))),
                 fmul(l4, powi(t, 4))),
                 fmul(l5, powi(t, 5))),
                 fmul(F(2), PI))
        b == fadd(fadd(fadd(fadd(fadd(b0,
                 fmul(b1, t)),
                 fmul(fmul(b2, t), t)),
                 fmul(b3, powi(t, 3))),
                 fmul(b4, powi(t, 4))),
                 fmul(b5, powi(t, 5)))
        r == fadd(fadd(fadd(fadd(r0,
                 fmul(r1, t)),
                 fmul(fmul(r2, t), t)),
                 fmul(r3, powi(t, 3))),
                 fmul(r4, powi(t, 4)))
    IN  SphericalCoordinates(IfElse(fgt(l, F(0)), l, fadd(fmul(F(2), PI), l)), b, r)

\* mercury, with PI in place of 2 * PI in the sign correction.
mercury_add_pi(jde) ==
    LET t == calculate_t(jde)
        l0 == calculate_var(t, tables["mercury"]["L"][0])
        l1 == calculate_var(t, tables["mercury"]["L"][1])
        l2 == calculate_var(t, tables["mercury"]["L"][2])
        l3 == calculate_var(t, tables["mercury"]["L"][3])
        l4 == calculate_var(t, tables["mercury"]["L"][4])
        l5 == calculate_var(t, tables["mercury"]["L"][5])
        b0 == calculate_var(t, tables["mercury"]["B"][0])
        b1 == calculate_var(t, tables["mercury"]["B"][1])
        b2 == calculate_var(t, tables["mercury"]["B"][2])
        b3 == calculate_var(t, tables["mercury"]["B"][3])
        b4 == calculate_var(t, tables["mercury"]["B"][4])
        b5 == calculate_var(t, tables["mercury"]["B"][5])
        r0 == calculate_var(t, tables["mercury"]["R"][0])
        r1 == calculate_var(t, tables["mercury"]["R"][1])
        r2 == calculate_var(t, tables["mercury"]["R"][2])
        r3 == calculate_var(t, tables["mercury"]["R"][3])
        r4 == calculate_var(t, tables["mercury"]["R"][4])
        l == frem(fadd(fadd(fadd(fadd(fadd(l0,
                 fmul(l1, t)),
                 fmul(fmul(l2, t), t)),
                 fmul(l3, powi(t, 3))),
                 fmul(l4, powi(t, 4))),
                 fmul(l5, powi(t, 5))),
                 fmul(F(2), PI))
        b == fadd(fadd(fadd(fadd(fadd(b0,
                 fmul(b1, t)),
                 fmul(fmul(b2, t), t)),
                 fmul(b3, powi(t, 3))),
                 fmul(b4, powi(t, 4))),
                 fmul(b5, powi(t, 5)))
        r == fadd(fadd(fadd(fadd(r0,
                 fmul(r1, t)),
                 fmul(fmul(r2, t), t)),
                 fmul(r3, powi(t, 3))),
                 fmul(r4, powi(t, 4)))
    IN  SphericalCoordinates(IfElse(fgt(l, F(0)), l, fadd(PI, l)), b, r)

\* pub fn mercury(jde: f64) -> SphericalCoordinates
mercury(jde) ==
    LET t == calculate_t(jde)
        l0 == calculate_var(t, tables["mercury"]["L"][0])
        l1 == calculate_var(t, tables["mercury"]["L"][1])
        l2 == calculate_var(t, tables["mercury"]["L"][2])
        l3 == calculate_var(t, tables["mercury"]["L"][3])
        l4 == calculate_var(t, tables["mercury"]["L"][4])
        l5 == calculate_var(t, tables["mercury"]["L"][5])
        b0 == calculate_var(t, tables["mercury"]["B"][0])
        b1 == calculate_var(t, tables["mercury"]["B"][1])
        b2 == calculate_var(t, tables["mercury"]["B"][2])
        b3 == calculate_var(t, tables["mercury"]["B"][3])
        b4 == calculate_var(t, tables["mercury"]["B"][4])
        b5 == calculate_var(t, tables["mercury"]["B"][5])
        r0 == calculate_var(t, tables["mercury"]["R"][0])
        r1 == calculate_var(t, tables["mercury"]["R"][1])
        r2 == calculate_var(t, tables["mercury"]["R"][2])
        r3 == calculate_var(t, tables["mercury"]["R"][3])
        r4 == calculate_var(t, tables["mercury"]["R"][4])
        l == frem(fadd(fadd(fadd(fadd(fadd(l0,
                 fmul(l1, t)),
                 fmul(fmul(l2, t), t)),
                 fmul(l3, powi(t, 3))),
                 fmul(l4, powi(t, 4))),
                 fmul(l5, powi(t, 5))),
                 fmul(F(2), PI))
        b == fadd(fadd(fadd(fadd(fadd(b0,
                 fmul(b1, t)),
                 fmul(fmul(b2, t), t)),
                 fmul(b3, powi(t, 3))),
                 fmul(b4, powi(t, 4))),
                 fmul(b5, powi(t, 5)))
        r == fadd(fadd(fadd(fadd(r0,
                 fmul(r1, t)),
                 fmul(fmul(r2, t), t)),
                 fmul(r3, powi(t, 3))),
                 fmul(r4, powi(t, 4)))
    IN  SphericalCoordinates(IfElse(fgt(l, F(0)), l, fadd(fmul(F(2), PI), l)), b, r)

\* pub fn venus(jde: f64) -> SphericalCoordinates
venus(jde) ==
    LET t == calculate_t(jde)
        l0 == calculate_var(t, tables["venus"]["L"][0])
        l1 == calculate_var(t, tables["venus"]["L"][1])
        l2 == calculate_var(t, tables["venus"]["L"][2])
        l3 == calculate_var(t, tables["venus"]["L"][3])
        l4 == calculate_var(t, tables["venus"]["L"][4])
        l5 == calculate_var(t, tables["venus"]["L"][5])
        b0 == calculate_var(t, tables["venus"]["B"][0])
        b1 == calculate_var(t, tables["venus"]["B"][1])
        b2 == calculate_var(t, tables["venus"]["B"][2])
        b3 == calculate_var(t, tables["venus"]["B"][3])
        b4 == calculate_var(t, tables["venus"]["B"][4])
        b5 == calculate_var(t, tables["venus"]["B"][5])
        r0 == calculate_var(t, tables["venus"]["R"][0])
        r1 == calculate_var(t, tables["venus"]["R"][1])
        r2 == calculate_var(t, tables["venus"]["R"][2])
        r3 == calculate_var(t, tables["venus"]["R"][3])
        r4 == calculate_var(t, tables["venus"]["R"][4])
        l == frem(fadd(fadd(fadd(fadd(fadd(l0,
                 fmul(l1, t)),
                 fmul(fmul(l2, t), t)),
                 fmul(l3, powi(t, 3))),
                 fmul(l4, powi(t, 4))),
                 fmul(l5, powi(t, 5))),
                 fmul(F(2), PI))
        b == fadd(fadd(fadd(fadd(fadd(b0,
                 fmul(b1, t)),
                 fmul(fmul(b2, t), t)),
                 fmul(b3, powi(t, 3))),
                 fmul(b4, powi(t, 4))),
                 fmul(b5, powi(t, 5)))
        r == fadd(fadd(fadd(fadd(r0,
                 fmul(r1, t)),
                 fmul(fmul(r2, t), t)),
                 fmul(r3, powi(t, 3))),
                 fmul(r4, powi(t, 4)))
    IN  SphericalCoordinates(IfElse(fgt(l, F(0)), l, fadd(fmul(F(2), PI), l)), b, r)

\* earth, with the longitude recombined from powers 0..4 only.
earth_no_l5(jde) ==
    LET t == calculate_t(jde)
        l0 == calculate_var(t, tables["earth"]["L"][0])
        l1 == calculate_var(t, tables["earth"]["L"][1])
        l2 == calculate_var(t, tables["earth"]["L"][2])
        l3 == calculate_var(t, tables["earth"]["L"][3])
        l4 == calculate_var(t, tables["earth"]["L"][4])
        l5 == calculate_var(t, tables["earth"]["L"][5])
        b0 == calculate_var(t, tables["earth"]["B"][0])
        b1 == calculate_var(t, tables["earth"]["B"][1])
        b2 == calculate_var(t, tables["earth"]["B"][2])
        b3 == calculate_var(t, tables["earth"]["B"][3])
        b4 == calculate_var(t, tables["earth"]["B"][4])
        r0 == calculate_var(t, tables["earth"]["R"][0])
        r1 == calculate_var(t, tables["earth"]["R"][1])
        r2 == calculate_var(t, tables["earth"]["R"][2])
        r3 == calculate_var(t, tables["earth"]["R"][3])
        r4 == calculate_var(t, tables["earth"]["R"][4])
        l == frem(fadd(fadd(fadd(fadd(l0,
                 fmul(l1, t)),
                 fmul(fmul(l2, t), t)),
                 fmul(l3, powi(t, 3))),
                 fmul(l4, powi(t, 4))),
                 fmul(F(2), PI))
        b == fadd(fadd(fadd(fadd(b0,
                 fmul(b1, t)),
                 fmul(fmul(b2, t), t)),
                 fmul(b3, powi(t, 3))),
                 fmul(b4, powi(t, 4)))
        r == fadd(fadd(fadd(fadd(r0,
                 fmul(r1, t)),
                 fmul(fmul(r2, t), t)),
                 fmul(r3, powi(t, 3))),
                 fmul(r4, powi(t, 4)))
    IN  SphericalCoordinates(IfElse(fgt(l, F(0)), l, fadd(fmul(F(2), PI), l)), b, r)

\* pub fn earth(jde: f64) -> SphericalCoordinates
earth(jde) ==
    LET t == calculate_t(jde)
        l0 == calculate_var(t, tables["earth"]["L"][0])
        l1 == calculate_var(t, tables["earth"]["L"][1])
        l2 == calculate_var(t, tables["earth"]["L"][2])
        l3 == calculate_var(t, tables["earth"]["L"][3])
        l4 == calculate_var(t, tables["earth"]["L"][4])
        l5 == calculate_var(t, tables["earth"]["L"][5])
        b0 == calculate_var(t, tables["earth"]["B"][0])
        b1 == calculate_var(t, tables["earth"]["B"][1])
        b2 == calculate_var(t, tables["earth"]["B"][2])
        b3 == calculate_var(t, tables["earth"]["B"][3])
        b4 == calculate_var(t, tables["earth"]["B"][4])
        r0 == calculate_var(t, tables["earth"]["R"][0])
        r1 == calculate_var(t, tables["earth"]["R"][1])
        r2 == calculate_var(t, tables["earth"]["R"][2])
        r3 == calculate_var(t, tables["earth"]["R"][3])
        r4 == calculate_var(t, tables["earth"]["R"][4])
        l == frem(fadd(fadd(fadd(fadd(fadd(l0,
                 fmul(l1, t)),
                 fmul(fmul(l2, t), t)),
                 fmul(l3, powi(t, 3))),
                 fmul(l4, powi(t, 4))),
                 fmul(l5, powi(t, 5))),
                 fmul(F(2), PI))
        b == fadd(fadd(fadd(fadd(b0,
                 fmul(b1, t)),
                 fmul(fmul(b2, t), t)),
                 fmul(b3, powi(t, 3))),
                 fmul(b4, powi(t, 4)))
        r == fadd(fadd(fadd(fadd(r0,
                 fmul(r1, t)),
                 fmul(fmul(r2, t), t)),
                 fmul(r3, powi(t, 3))),
                 fmul(r4, powi(t, 4)))
    IN  SphericalCoordinates(IfElse(fgt(l, F(0)), l, fadd(fmul(F(2), PI), l)), b, r)

\* pub fn mars(jde: f64) -> SphericalCoordinates
mars(jde) ==
    LET t == calculate_t(jde)
        l0 == calculate_var(t, tables["mars"]["L"][0])
        l1 == calculate_var(t, tables["mars"]["L"][1])
        l2 == calculate_var(t, tables["mars"]["L"][2])
        l3 == calculate_var(t, tables["mars"]["L"][3])
        l4 == calculate_var(t, tables["mars"]["L"][4])
        l5 == calculate_var(t, tables["mars"]["L"][5])
        b0 == calculate_var(t, tables["mars"]["B"][0])
        b1 == calculate_var(t, tables["mars"]["B"][1])
        b2 == calculate_var(t, tables["mars"]["B"][2])
        b3 == calculate_var(t, tables["mars"]["B"][3])
        b4 == calculate_var(t, tables["mars"]["B"][4])
        b5 == calculate_var(t, tables["mars"]["B"][5])
        r0 == calculate_var(t, tables["mars"]["R"][0])
        r1 == calculate_var(t, tables["mars"]["R"][1])
        r2 == calculate_var(t, tables["mars"]["R"][2])
        r3 == calculate_var(t, tables["mars"]["R"][3])
        r4 == calculate_var(t, tables["mars"]["R"][4])
        l == frem(fadd(fadd(fadd(fadd(fadd(l0,
                 fmul(l1, t)),
                 fmul(fmul(l2, t), t)),
                 fmul(l3, powi(t, 3))),
                 fmul(l4, powi(t, 4))),
                 fmul(l5, powi(t, 5))),
                 fmul(F(2), PI))
        b == fadd(fadd(fadd(fadd(fadd(b0,
                 fmul(b1, t)),
                 fmul(fmul(b2, t), t)),
                 fmul(b3, powi(t, 3))),
                 fmul(b4, powi(t, 4))),
                 fmul(b5, powi(t, 5)))
        r == fadd(fadd(fadd(fadd(r0,
                 fmul(r1, t)),
                 fmul(fmul(r2, t), t)),
                 fmul(r3, powi(t, 3))),
                 fmul(r4, powi(t, 4)))
    IN  SphericalCoordinates(IfElse(fgt(l, F(0)), l, fadd(fmul(F(2), PI), l)), b, r)

\* jupiter, with the longitude sum carried over from the call before.
jupiter_carry(jde) ==
    LET t == calculate_t(jde)
        l0 == calculate_var(t, tables["jupiter"]["L"][0])
        l1 == calculate_var(t, tables["jupiter"]["L"][1])
        l2 == calculate_var(t, tables["jupiter"]["L"][2])
        l3 == calculate_var(t, tables["jupiter"]["L"][3])
        l4 == calculate_var(t, tables["jupiter"]["L"][4])
        l5 == calculate_var(t, tables["jupiter"]["L"][5])
        b0 == calculate_var(t, tables["jupiter"]["B"][0])
        b1 == calculate_var(t, tables["jupiter"]["B"][1])
        b2 == calculate_var(t, tables["jupiter"]["B"][2])
        b3 == calculate_var(t, tables["jupiter"]["B"][3])
        b4 == calculate_var(t, tables["jupiter"]["B"][4])
        b5 == calculate_var(t, tables["jupiter"]["B"][5])
        r0 == calculate_var(t, tables["jupiter"]["R"][0])
        r1 == calculate_var(t, tables["jupiter"]["R"][1])
        r2 == calculate_var(t, tables["jupiter"]["R"][2])
        r3 == calculate_var(t, tables["jupiter"]["R"][3])
        r4 == calculate_var(t, tables["jupiter"]["R"][4])
        l == frem(fadd(fadd(fadd(fadd(fadd(fadd(IF n > 0 THEN last.result.lon ELSE F(0), l0),
                 fmul(l1, t)),
                 fmul(fmul(l2, t), t)),
                 fmul(l3, powi(t, 3))),
                 fmul(l4, powi(t, 4))),
                 fmul(l5, powi(t, 5))),
                 fmul(F(2), PI))
        b == fadd(fadd(fadd(fadd(fadd(b0,
                 fmul(b1, t)),
                 fmul(fmul(b2, t), t)),
                 fmul(b3, powi(t, 3))),
                 fmul(b4, powi(t, 4))),
                 fmul(b5, powi(t, 5)))
        r == fadd(fadd(fadd(fadd(r0,
                 fmul(r1, t)),
                 fmul(fmul(r2, t), t)),
                 fmul(r3, powi(t, 3))),
                 fmul(r4, powi(t, 4)))
    IN  SphericalCoordinates(IfElse(fgt(l, F(0)), l, fadd(fmul(F(2), PI), l)), b, r)

\* pub fn jupiter(jde: f64) -> SphericalCoordinates
jupiter(jde) ==
    LET t == calculate_t(jde)
        l0 == calculate_var(t, tables["jupiter"]["L"][0])
        l1 == calculate_var(t, tables["jupiter"]["L"][1])
        l2 == calculate_var(t, tables["jupiter"]["L"][2])
        l3 == calculate_var(t, tables["jupiter"]["L"][3])
        l4 == calculate_var(t, tables["jupiter"]["L"][4])
        l5 == calculate_var(t, tables["jupiter"]["L"][5])
        b0 == calculate_var(t, tables["jupiter"]["B"][0])
        b1 == calculate_var(t, tables["jupiter"]["B"][1])
        b2 == calculate_var(t, tables["jupiter"]["B"][2])
        b3 == calculate_var(t, tables["jupiter"]["B"][3])
        b4 == calculate_var(t, tables["jupiter"]["B"][4])
        b5 == calculate_var(t, tables["jupiter"]["B"][5])
        r0 == calculate_var(t, tables["jupiter"]["R"][0])
        r1 == calculate_var(t, tables["jupiter"]["R"][1])
        r2 == calculate_var(t, tables["jupiter"]["R"][2])
        r3 == calculate_var(t, tables["jupiter"]["R"][3])
        r4 == calculate_var(t, tables["jupiter"]["R"][4])
        l == frem(fadd(fadd(fadd(fadd(fadd(l0,
                 fmul(l1, t)),
                 fmul(fmul(l2, t), t)),
                 fmul(l3, powi(t, 3))),
                 fmul(l4, powi(t, 4))),
                 fmul(l5, powi(t, 5))),
                 fmul(F(2), PI))
        b == fadd(fadd(fadd(fadd(fadd(b0,
                 fmul(b1, t)),
                 fmul(fmul(b2, t), t)),
                 fmul(b3, powi(t, 3))),
                 fmul(b4, powi(t, 4))),
                 fmul(b5, powi(t, 5)))
        r == fadd(fadd(fadd(fadd(r0,
                 fmul(r1, t)),
                 fmul(fmul(r2, t), t)),
                 fmul(r3, powi(t, 3))),
                 fmul(r4, powi(t, 4)))
    IN  SphericalCoordinates(IfElse(fgt(l, F(0)), l, fadd(fmul(F(2), PI), l)), b, r)

\* pub fn saturn(jde: f64) -> SphericalCoordinates
saturn(jde) ==
    LET t == calculate_t(jde)
        l0 == calculate_var(t, tables["saturn"]["L"][0])
        l1 == calculate_var(t, tables["saturn"]["L"][1])
        l2 == calculate_var(t, tables["saturn"]["L"][2])
        l3 == calculate_var(t, tables["saturn"]["L"][3])
        l4 == calculate_var(t, tables["saturn"]["L"][4])
        l5 == calculate_var(t, tables["saturn"]["L"][5])
        b0 == calculate_var(t, tables["saturn"]["B"][0])
        b1 == calculate_var(t, tables["saturn"]["B"][1])
        b2 == calculate_var(t, tables["saturn"]["B"][2])
        b3 == calculate_var(t, tables["saturn"]["B"][3])
        b4 == calculate_var(t, tables["saturn"]["B"][4])
        b5 == calculate_var(t, tables["saturn"]["B"][5])
        r0 == calculate_var(t, tables["saturn"]["R"][0])
        r1 == calculate_var(t, tables["saturn"]["R"][1])
        r2 == calculate_var(t, tables["saturn"]["R"][2])
        r3 == calculate_var(t, tables["saturn"]["R"][3])
        r4 == calculate_var(t, tables["saturn"]["R"][4])
        l == frem(fadd(fadd(fadd(fadd(fadd(l0,
                 fmul(l1, t)),
                 fmul(fmul(l2, t), t)),
                 fmul(l3, powi(t, 3))),
                 fmul(l4, powi(t, 4))),
                 fmul(l5, powi(t, 5))),
                 fmul(F(2), PI))
        b == fadd(fadd(fadd(fadd(fadd(b0,
                 fmul(b1, t)),
                 fmul(fmul(b2, t), t)),
                 fmul(b3, powi(t, 3))),
                 fmul(b4, powi(t, 4))),
                 fmul(b5, powi(t, 5)))
        r == fadd(fadd(fadd(fadd(r0,
                 fmul(r1, t)),
                 fmul(fmul(r2, t), t)),
                 fmul(r3, powi(t, 3))),
                 fmul(r4, powi(t, 4)))
    IN  SphericalCoordinates(IfElse(fgt(l, F(0)), l, fadd(fmul(F(2), PI), l)), b, r)

\* uranus, with the latitude reduced modulo 2 * PI like the longitude.
uranus_b_reduced(jde) ==
    LET t == calculate_t(jde)
        l0 == calculate_var(t, tables["uranus"]["L"][0])
        l1 == calculate_var(t, tables["uranus"]["L"][1])
        l2 == calculate_var(t, tables["uranus"]["L"][2])
        l3 == calculate_var(t, tables["uranus"]["L"][3])
        l4 == calculate_var(t, tables["uranus"]["L"][4])
        l5 == calculate_var(t, tables["uranus"]["L"][5])
        b0 == calculate_var(t, tables["uranus"]["B"][0])
        b1 == calculate_var(t, tables["uranus"]["B"][1])
        b2 == calculate_var(t, tables["uranus"]["B"][2])
        b3 == calculate_var(t, tables["uranus"]["B"][3])
        b4 == calculate_var(t, tables["uranus"]["B"][4])
        r0 == calculate_var(t, tables["uranus"]["R"][0])
        r1 == calculate_var(t, tables["uranus"]["R"][1])
        r2 == calculate_var(t, tables["uranus"]["R"][2])
        r3 == calculate_var(t, tables["uranus"]["R"][3])
        l == frem(fadd(fadd(fadd(fadd(fadd(l0,
                 fmul(l1, t)),
                 fmul(fmul(l2, t), t)),
                 fmul(l3, powi(t, 3))),
                 fmul(l4, powi(t, 4))),
                 fmul(l5, powi(t, 5))),
                 fmul(F(2), PI))
        b == frem(fadd(fadd(fadd(fadd(b0,
                 fmul(b1, t)),
                 fmul(fmul(b2, t), t)),
                 fmul(b3, powi(t, 3))),
                 fmul(b4, powi(t, 4))),
                 fmul(F(2), PI))
        r == fadd(fadd(fadd(r0,
                 fmul(r1, t)),
                 fmul(fmul(r2, t), t)),
                 fmul(r3, powi(t, 3)))
    IN  SphericalCoordinates(IfElse(fgt(l, F(0)), l, fadd(fmul(F(2), PI), l)), b, r)

\* pub fn uranus(jde: f64) -> SphericalCoordinates
uranus(jde) ==
    LET t == calculate_t(jde)
        l0 == calculate_var(t, tables["uranus"]["L"][0])
        l1 == calculate_var(t, tables["uranus"]["L"][1])
        l2 == calculate_var(t, tables["uranus"]["L"][2])
        l3 == calculate_var(t, tables["uranus"]["L"][3])
        l4 == calculate_var(t, tables["uranus"]["L"][4])
        l5 == calculate_var(t, tables["uranus"]["L"][5])
        b0 == calculate_var(t, tables["uranus"]["B"][0])
        b1 == calculate_var(t, tables["uranus"]["B"][1])
        b2 == calculate_var(t, tables["uranus"]["B"][2])
        b3 == calculate_var(t, tables["uranus"]["B"][3])
        b4 == calculate_var(t, tables["uranus"]["B"][4])
        r0 == calculate_var(t, tables["uranus"]["R"][0])
        r1 == calculate_var(t, tables["uranus"]["R"][1])
        r2 == calculate_var(t, tables["uranus"]["R"][2])
        r3 == calculate_var(t, tables["uranus"]["R"][3])
        l == frem(fadd(fadd(fadd(fadd(fadd(l0,
                 fmul(l1, t)),
                 fmul(fmul(l2, t), t)),
                 fmul(l3, powi(t, 3))),
                 fmul(l4, powi(t, 4))),
                 fmul(l5, powi(t, 5))),
                 fmul(F(2), PI))
        b == fadd(fadd(fadd(fadd(b0,
                 fmul(b1, t)),
                 fmul(fmul(b2, t), t)),
                 fmul(b3, powi(t, 3))),
                 fmul(b4, powi(t, 4)))
        r == fadd(fadd(fadd(r0,
                 fmul(r1, t)),
                 fmul(fmul(r2, t), t)),
                 fmul(r3, powi(t, 3)))
    IN  SphericalCoordinates(IfElse(fgt(l, F(0)), l, fadd(fmul(F(2), PI), l)), b, r)

\* neptune, with the latitude recombined from powers 0..4 only.
neptune_no_b5(jde) ==
    LET t == calculate_t(jde)
        l0 == calculate_var(t, tables["neptune"]["L"][0])
        l1 == calculate_var(t, tables["neptune"]["L"][1])
        l2 == calculate_var(t, tables["neptune"]["L"][2])
        l3 == calculate_var(t, tables["neptune"]["L"][3])
        l4 == calculate_var(t, tables["neptune"]["L"][4])
        l5 == calculate_var(t, tables["neptune"]["L"][5])
        b0 == calculate_var(t, tables["neptune"]["B"][0])
        b1 == calculate_var(t, tables["neptune"]["B"][1])
        b2 == calculate_var(t, tables["neptune"]["B"][2])
        b3 == calculate_var(t, tables["neptune"]["B"][3])
        b4 == calculate_var(t, tables["neptune"]["B"][4])
        b5 == calculate_var(t, tables["neptune"]["B"][5])
        r0 == calculate_var(t, tables["neptune"]["R"][0])
        r1 == calculate_var(t, tables["neptune"]["R"][1])
        r2 == calculate_var(t, tables["neptune"]["R"][2])
        r3 == calculate_var(t, tables["neptune"]["R"][3])
        l == frem(fadd(fadd(fadd(fadd(fadd(l0,
                 fmul(l1, t)),
                 fmul(fmul(l2, t), t)),
                 fmul(l3, powi(t, 3))),
                 fmul(l4, powi(t, 4))),
                 fmul(l5, powi(t, 5))),
                 fmul(F(2), PI))
        b == fadd(fadd(fadd(fadd(b0,
                 fmul(b1, t)),
                 fmul(fmul(b2, t), t)),
                 fmul(b3, powi(t, 3))),
                 fmul(b4, powi(t, 4)))
        r == fadd(fadd(fadd(r0,
                 fmul(r1, t)),
                 fmul(fmul(r2, t), t)),
                 fmul(r3, powi(t, 3)))
    IN  SphericalCoordinates(IfElse(fgt(l, F(0)), l, fadd(fmul(F(2), PI), l)), b, r)

\* pub fn neptune(jde: f64) -> SphericalCoordinates
neptune(jde) ==
    LET t == calculate_t(jde)
        l0 == calculate_var(t, tables["neptune"]["L"][0])
        l1 == calculate_var(t, tables["neptune"]["L"][1])
        l2 == calculate_var(t, tables["neptune"]["L"][2])
        l3 == calculate_var(t, tables["neptune"]["L"][3])
        l4 == calculate_var(t, tables["neptune"]["L"][4])
        l5 == calculate_var(t, tables["neptune"]["L"][5])
        b0 == calculate_var(t, tables["neptune"]["B"][0])
        b1 == calculate_var(t, tables["neptune"]["B"][1])
        b2 == calculate_var(t, tables["neptune"]["B"][2])
        b3 == calculate_var(t, tables["neptune"]["B"][3])
        b4 == calculate_var(t, tables["neptune"]["B"][4])
        b5 == calculate_var(t, tables["neptune"]["B"][5])
        r0 == calculate_var(t, tables["neptune"]["R"][0])
        r1 == calculate_var(t, tables["neptune"]["R"][1])
        r2 == calculate_var(t, tables["neptune"]["R"][2])
        r3 == calculate_var(t, tables["neptune"]["R"][3])
        l == frem(fadd(fadd(fadd(fadd(fadd(l0,
                 fmul(l1, t)),
                 fmul(fmul(l2, t), t)),
                 fmul(l3, powi(t, 3))),
                 fmul(l4, powi(t, 4))),
                 fmul(l5, powi(t, 5))),
                 fmul(F(2), PI))
        b == fadd(fadd(fadd(fadd(fadd(b0,
                 fmul(b1, t)),
                 fmul(fmul(b2, t), t)),
                 fmul(b3, powi(t, 3))),
                 fmul(b4, powi(t, 4))),
                 fmul(b5, powi(t, 5)))
        r == fadd(fadd(fadd(r0,
                 fmul(r1, t)),
                 fmul(fmul(r2, t), t)),
                 fmul(r3, powi(t, 3)))
    IN  SphericalCoordinates(IfElse(fgt(l, F(0)), l, fadd(fmul(F(2), PI), l)), b, r)

(* ---------------------------------------------------------------------- *)
(* The calls.  A call of a planet function with a Julian Day returns its   *)
(* result and changes nothing; the history records it.                     *)
(* ---------------------------------------------------------------------- *)

NoCall == Call("none", F(0), SphericalCoordinates(F(0), F(0), F(0)))

Record(p, jde, res) ==
    /\ last' = Call(p, jde, res)
    /\ first' = IF n = 0 THEN Call(p, jde, res) ELSE first
    /\ n' = IF n < MaxCalls THEN n + 1 ELSE n

\* What each planet function returns at each Julian Day of the model: one
\* table for each of the eight functions.
MercuryResults == [jde \in JulianDays |-> mercury(jde)]
VenusResults == [jde \in JulianDays |-> venus(jde)]
EarthResults == [jde \in JulianDays |-> earth(jde)]
MarsResults == [jde \in JulianDays |-> mars(jde)]
JupiterResults == [jde \in JulianDays |-> jupiter(jde)]
SaturnResults == [jde \in JulianDays |-> saturn(jde)]
UranusResults == [jde \in JulianDays |-> uranus(jde)]
NeptuneResults == [jde \in JulianDays |-> neptune(jde)]

CallMercury(jde) == Record("mercury", jde, MercuryResults[jde])
CallVenus(jde) == Record("venus", jde, VenusResults[jde])
CallEarth(jde) == Record("earth", jde, EarthResults[jde])
CallMars(jde) == Record("mars", jde, MarsResults[jde])
CallJupiter(jde) == Record("jupiter", jde, JupiterResults[jde])
CallSaturn(jde) == Record("saturn", jde, SaturnResults[jde])
CallUranus(jde) == Record("uranus", jde, UranusResults[jde])
CallNeptune(jde) == Record("neptune", jde, NeptuneResults[jde])

Init ==
    /\ first = NoCall
    /\ last = NoCall
    /\ n = 0

Next ==
    \/ \E jde \in JulianDays : CallMercury(jde)
    \/ \E jde \in JulianDays : CallVenus(jde)
    \/ \E jde \in JulianDays : CallEarth(jde)
    \/ \E jde \in JulianDays : CallMars(jde)
    \/ \E jde \in JulianDays : CallJupiter(jde)
    \/ \E jde \in JulianDays : CallSaturn(jde)
    \/ \E jde \in JulianDays : CallUranus(jde)
    \/ \E jde \in JulianDays : CallNeptune(jde)

Spec == Init /\ [][Next]_vars

(* ---------------------------------------------------------------------- *)
(* Reference definitions for the properties: the recombined sums written   *)
(* once, for any planet, coordinate and highest power.                     *)
(* ---------------------------------------------------------------------- *)

\* 2_f64 * PI
TwoPi == fmul(F(2), PI)

\* The series evaluator's result for slot (p, c, k) at t.
PartialSum(p, c, k, t) == calculate_var(t, tables[p][c][k])

\* The term of power k as the planet functions write it:
\* x, x * t, x * t * t, x * t.powi(k).
PowerTerm(x, t, k) ==
    IF k = 0 THEN x
    ELSE IF k = 1 THEN fmul(x, t)
    ELSE IF k = 2 THEN fmul(fmul(x, t), t)
    ELSE fmul(x, powi(t, k))

\* The sums of the power terms of the partial sums x (x[j + 1] that of power
\* j) over the powers 0..k, for k from the power "from" upwards, where sum
\* is the sum over the powers below "from": each sum is the one before it
\* plus one power term.
RECURSIVE SumsFrom(_, _, _, _)
SumsFrom(x, t, from, sum) ==
    IF from >= Len(x) THEN <<>>
    ELSE LET next == fadd(sum, PowerTerm(x[from + 1], t, from))
         IN  <<next>> \o SumsFrom(x, t, from + 1, next)

\* The recombined sums of the partial sums x at t: member k + 1 is
\* x0 + x1 * t + ... up to the term of power k.
RecombinedSums(x, t) == <<Head(x)>> \o SumsFrom(x, t, 1, Head(x))

\* The highest power of t each planet function populates, per coordinate.
HighestPower(p, c) ==
    CASE c = "L" -> 5
      [] c = "B" -> IF p \in {"earth", "uranus"} THEN 4 ELSE 5
      [] c = "R" -> IF p \in {"uranus", "neptune"} THEN 3 ELSE 4

\* The reduced longitude: the raw sum x % (2 * PI), with the sign of x.
Reduced(x) == frem(x, TwoPi)

\* The longitude returned for the raw sum x: the reduced sum where it is
\* greater than 0, and 2 * PI + the reduced sum otherwise.
NormalizedLon(x) ==
    LET l == Reduced(x)
    IN  IfElse(fgt(l, F(0)), l, fadd(TwoPi, l))

RECURSIVE NatToInt(_)
NatToInt(a) == IF a = <<>> THEN 0 ELSE a[1] + Base * NatToInt(SubSeq(a, 2, Len(a)))

\* The whole turns that % (2 * PI) removes from the finite raw sum x: the
\* quotient x / (2 * PI) truncated toward zero, an integer.
Turns(x) ==
    LET e == Min(Exp(x), Exp(TwoPi))
        q == NatToInt(NatDivMod(NatShl(Mant(x), Exp(x) - e),
                                NatShl(Mant(TwoPi), Exp(TwoPi) - e)).quot)
    IN  IF Sign(x) = 1 THEN 0 - q ELSE q

\* The turns by which the returned longitude lies below the finite raw sum
\* x: those the % removes, less the one the sign correction adds where the
\* reduced sum is not greater than 0.
TurnsRemoved(x) == IF Holds(fgt(Reduced(x), F(0))) THEN Turns(x) ELSE Turns(x) - 1

\* The rounding error of the f64 sum a + b: (a + b) - fadd(a, b), which is
\* an f64 for finite a and b.
AddError(a, b) ==
    LET s == fadd(a, b)
        bv == fsub(s, a)
        av == fsub(s, bv)
    IN  fadd(fsub(a, av), fsub(b, bv))

\* lon is the reduced sum of x or exactly 2 * PI more: lon and x differ by
\* an integer multiple of 2 * PI with no rounding.
ExactMultipleApart(lon, x) ==
    \/ lon = Reduced(x)
    \/ lon = fadd(TwoPi, Reduced(x)) /\ Holds(feq(AddError(TwoPi, Reduced(x)), F(0)))

\* 2^-30, far above the rounding errors of sums of a few f64 of magnitude
\* below 2^10 and far below 2 * PI.
Tolerance == Float(0, NatShl(<<1>>, MantBits - 1), 0 - 30 - (MantBits - 1))

\* a and b are determined to be finite and less than Tolerance apart
Near(a, b) == Holds(Finite(a)) /\ Holds(Finite(b)) /\ Holds(fgt(Tolerance, fabs(fsub(a, b))))

Called == n > 0

TimeOf(call) == calculate_t(call.jde)

\* The recombined sums of every planet at every Julian Day of the model,
\* for every coordinate: the sums of the series evaluator's results for the
\* slots of powers 0..5 at the t of the Julian Day, tabulated.
Sums ==
    [p \in Planets |-> [jde \in JulianDays |-> [c \in Coordinates |->
        RecombinedSums([i \in 1..6 |-> PartialSum(p, c, i - 1, calculate_t(jde))],
                       calculate_t(jde))]]]

\* The recombined sum of coordinate c up to power k at a recorded call.
SumOf(call, c, k) == Sums[call.planet][call.jde][c][k + 1]

\* The raw recombined longitude sum of a recorded call.
Lraw(call) == SumOf(call, "L", 5)

\* The contribution of power k to coordinate c in the latest call.
Contribution(c, k) ==
    PowerTerm(PartialSum(last.planet, c, k, TimeOf(last)), TimeOf(last), k)

(* ---------------------------------------------------------------------- *)
(* Properties.                                                             *)
(* ---------------------------------------------------------------------- *)

\* C1: the longitude every planet function returns for a finite Julian Day
\* satisfies 0 <= lon < 2 * PI, also where the raw sum is zero or a multiple
\* of 2 * PI.
C1_LonInHalfOpenRange ==
    Called => Holds(fge(last.result.lon, F(0))) /\ Holds(fgt(TwoPi, last.result.lon))

\* C2: what a call returns depends on the planet function and its argument
\* only: after any calls, the first and the latest recorded result are each
\* the value the recombined sums over the constant coefficient data give for
\* that planet and Julian Day, whatever was called before or between, so a
\* planet function called again with the same Julian Day returns the
\* identical result.
C2_SameCallSameResult ==
    Called =>
        /\ \A call \in {first, last} :
              /\ call.result.lon = NormalizedLon(Lraw(call))
              /\ call.result.lat = SumOf(call, "B", HighestPower(call.planet, "B"))
              /\ call.result.dist = SumOf(call, "R", HighestPower(call.planet, "R"))
        /\ (last.planet = first.planet /\ last.jde = first.jde)
              => last.result = first.result

C2_Witness ==
    /\ n >= 3
    /\ first.planet = "jupiter"
    /\ last.planet = "jupiter"
    /\ first.jde = last.jde
    /\ first.jde = F(2232395)

\* C3: the returned lat is exactly the sum of B_k * t^k and the returned
\* dist exactly the sum of R_k * t^k over the planet's populated powers, read
\* from the planet's own B and R tables at the call's t, with no reduction
\* modulo 2 * PI, no sign correction and no clamping.
C3_LatDistRawSums ==
    Called =>
        LET p == last.planet
        IN  /\ last.result.lat = SumOf(last, "B", HighestPower(p, "B"))
            /\ last.result.dist = SumOf(last, "R", HighestPower(p, "R"))

C3_Witness ==
    /\ Called
    /\ last.planet = "uranus"
    /\ Holds(fge(last.result.lat, TwoPi))
    /\ Holds(fgt(F(0), last.result.dist))
    /\ last.result.lat # NormalizedLon(last.result.lat)

\* A SphericalCoordinates value: three f64 fields.
IsSphericalCoordinates(r) ==
    /\ DOMAIN r = {"lon", "lat", "dist"}
    /\ IsF64(r.lon)
    /\ IsF64(r.lat)
    /\ IsF64(r.dist)

\* C4: every planet function is total: every call, of any of the eight
\* functions with any finite Julian Day and after any calls before it,
\* returns a SphericalCoordinates value (every call is taken from every
\* state, and what it returned is the latest result).
C4_Total ==
    Called =>
        /\ last.planet \in Planets
        /\ last.jde \in JulianDays
        /\ IsSphericalCoordinates(last.result)

C4_Witness ==
    /\ Called
    /\ last.planet = "mercury"
    /\ last.jde = Big
    /\ Holds(Finite(TimeOf(last)))
    /\ last.result.lon = NaN
    /\ Fails(Finite(last.result.lat))
    /\ Fails(Finite(last.result.dist))

\* C5: every coordinate is recombined at the one time value
\* t = (jde - 2451545) / 365250, used for every series slot and every power;
\* at jde = 2451545 that t is 0 and each coordinate's sum is its power-0
\* partial sum alone.
C5_TimeVariable ==
    Called =>
        LET p == last.planet
            t == fdiv(fsub(last.jde, F(2451545)), F(365250))
        IN  /\ TimeOf(last) = t
            /\ last.result.lon = NormalizedLon(SumOf(last, "L", HighestPower(p, "L")))
            /\ last.result.lat = SumOf(last, "B", HighestPower(p, "B"))
            /\ last.result.dist = SumOf(last, "R", HighestPower(p, "R"))
            /\ last.jde = F(2451545) =>
                  /\ t = F(0)
                  /\ last.result.lon = NormalizedLon(PartialSum(p, "L", 0, F(0)))
                  /\ Holds(feq(last.result.lat, PartialSum(p, "B", 0, F(0))))
                  /\ Holds(feq(last.result.dist, PartialSum(p, "R", 0, F(0))))

C5_Witness ==
    /\ Called
    /\ last.planet = "mercury"
    /\ last.jde = F(J2000)
    /\ Fails(feq(PartialSum("mercury", "L", 1, F(0)), F(0)))
    /\ Fails(feq(PartialSum("mercury", "B", 1, F(0)), F(0)))
    /\ Fails(feq(PartialSum("mercury", "R", 1, F(0)), F(0)))

\* C7: the longitude is the raw sum reduced once modulo 2 * PI with the sign
\* of the raw sum kept, with 2 * PI added exactly when the reduced value is
\* negative; a reduced value of zero or more is returned unchanged.
C7_NormalizationOrder ==
    Called =>
        LET l == Reduced(Lraw(last))
        IN  last.result.lon = IfElse(fgt(F(0), l), fadd(l, TwoPi), l)

\* C8 as stated: earth recombines longitude, latitude and distance each from
\* the five partial sums of t^0 through t^4, with no t^5 contribution.
C8_EarthPowersZeroToFour ==
    (Called /\ last.planet = "earth") =>
        /\ last.result.lon = NormalizedLon(SumOf(last, "L", 4))
        /\ last.result.lat = SumOf(last, "B", 4)
        /\ last.result.dist = SumOf(last, "R", 4)

\* C8 as amended: earth recombines its longitude from the six partial sums of
\* t^0 through t^5, and its latitude and its distance each from the five
\* partial sums of t^0 through t^4.
C8_EarthPowers ==
    (Called /\ last.planet = "earth") =>
        /\ last.result.lon = NormalizedLon(SumOf(last, "L", 5))
        /\ last.result.lat = SumOf(last, "B", 4)
        /\ last.result.dist = SumOf(last, "R", 4)

C8_Witness ==
    /\ Called
    /\ last.planet = "earth"
    /\ Holds(Finite(Lraw(last)))
    /\ last.result.lon # NormalizedLon(SumOf(last, "L", 4))
    /\ Holds(Finite(Contribution("B", 5)))
    /\ Fails(feq(Contribution("B", 5), F(0)))
    /\ Fails(feq(Contribution("R", 5), F(0)))

\* C9 as stated: uranus and neptune recombine longitude from powers 0..5 and
\* latitude and distance each from powers 0..k for some k below 5.
C9_OuterPlanetsFewerPowers ==
    (Called /\ last.planet \in {"uranus", "neptune"}) =>
        /\ last.result.lon = NormalizedLon(SumOf(last, "L", 5))
        /\ \E k \in 0..4 : last.result.lat = SumOf(last, "B", k)
        /\ \E k \in 0..4 : last.result.dist = SumOf(last, "R", k)

\* C9 as amended: uranus and neptune recombine longitude from powers 0..5 and
\* distance from powers 0..3; uranus recombines latitude from powers 0..4,
\* neptune from powers 0..5, the same powers as its longitude.
C9_OuterPlanetPowers ==
    (Called /\ last.planet \in {"uranus", "neptune"}) =>
        /\ last.result.lon = NormalizedLon(SumOf(last, "L", 5))
        /\ last.result.lat = SumOf(last, "B", IF last.planet = "uranus" THEN 4 ELSE 5)
        /\ last.result.dist = SumOf(last, "R", 3)

C9_Witness ==
    /\ Called
    /\ last.planet = "neptune"
    /\ Holds(Finite(last.result.lat))
    /\ Fails(feq(Contribution("B", 5), F(0)))
    /\ Fails(feq(Contribution("R", 4), F(0)))
    /\ \A k \in 0..4 : last.result.lat # SumOf(last, "B", k)

\* C10 as stated: where the raw sums are finite, the longitude differs from
\* the raw sum by an exact integer multiple of 2 * PI, and over a step d
\* (0 < d < 2 * PI) of the raw sum the longitude changes by exactly
\* d - 2 * PI when a multiple of 2 * PI lies inside the step and by exactly
\* d when none lies in the step or at its ends.
C10_WrapByTwoPi ==
    (Called /\ Holds(Finite(Lraw(first))) /\ Holds(Finite(Lraw(last)))) =>
        LET x == Lraw(first)
            y == Lraw(last)
            d == fsub(y, x)
            change == fsub(last.result.lon, first.result.lon)
        IN  /\ ExactMultipleApart(first.result.lon, x)
            /\ ExactMultipleApart(last.result.lon, y)
            /\ (Holds(fgt(d, F(0))) /\ Holds(fgt(TwoPi, d))) =>
                  /\ (TurnsRemoved(y) > TurnsRemoved(x) /\ Fails(feq(Reduced(x), F(0))))
                        => change = fsub(d, TwoPi)
                  /\ (TurnsRemoved(y) = TurnsRemoved(x) /\ Fails(feq(Reduced(y), F(0))))
                        => change = d

\* C10 as amended: where the raw sums are finite, the longitude is the raw
\* sum less a whole number of turns of 2 * PI up to the rounding of the f64
\* operations (exactly the reduced sum where that is positive, the rounded
\* sum 2 * PI + l otherwise), so raw sums with the same reduced sum give the
\* same longitude, and over a step d (0 < d < 2 * PI) of the raw sum the
\* longitude changes, up to rounding, by d - 2 * PI when a multiple of
\* 2 * PI lies inside the step, by d when none lies in the step or at its
\* ends, and by one of the two when the step starts or ends on a multiple.
C10_WrapUpToRounding ==
    (Called /\ Holds(Finite(Lraw(first))) /\ Holds(Finite(Lraw(last)))) =>
        LET x == Lraw(first)
            y == Lraw(last)
            d == fsub(y, x)
            change == fsub(last.result.lon, first.result.lon)
        IN  /\ Near(fadd(first.result.lon, fmul(F(TurnsRemoved(x)), TwoPi)), x)
            /\ Near(fadd(last.result.lon, fmul(F(TurnsRemoved(y)), TwoPi)), y)
            /\ Holds(fgt(Reduced(y), F(0))) => last.result.lon = Reduced(y)
            /\ Fails(fgt(Reduced(y), F(0))) => last.result.lon = fadd(TwoPi, Reduced(y))
            /\ Reduced(x) = Reduced(y) => last.result.lon = first.result.lon
            /\ (Holds(fgt(d, F(0))) /\ Holds(fgt(TwoPi, d))) =>
                  /\ Near(change, d) \/ Near(change, fsub(d, TwoPi))
                  /\ (TurnsRemoved(y) > TurnsRemoved(x) /\ Fails(feq(Reduced(x), F(0))))
                        => Near(change, fsub(d, TwoPi))
                  /\ (TurnsRemoved(y) = TurnsRemoved(x) /\ Fails(feq(Reduced(y), F(0))))
                        => Near(change, d)

C10_Witness ==
    /\ n >= 2
    /\ first.planet = "mercury"
    /\ first.jde = F(2378495)
    /\ Holds(fgt(F(0), Lraw(first)))
    /\ Holds(fgt(Lraw(last), F(0)))
    /\ Holds(fgt(TwoPi, fsub(Lraw(last), Lraw(first))))
    /\ TurnsRemoved(Lraw(last)) > TurnsRemoved(Lraw(first))
    /\ ~ExactMultipleApart(first.result.lon, Lraw(first))
    /\ Near(fsub(last.result.lon, first.result.lon),
            fsub(fsub(Lraw(last), Lraw(first)), TwoPi))

\* C11: because the sign test is l > 0, with 2 * PI added otherwise, the
\* longitude every planet function returns is strictly positive and at most
\* 2 * PI: a reduced longitude of exactly 0 is returned as 2 * PI, and 0 is
\* never returned.
C11_LonInHalfOpenRangeFromAbove ==
    Called =>
        /\ Holds(fgt(last.result.lon, F(0)))
        /\ Holds(fge(TwoPi, last.result.lon))
        /\ Holds(feq(Reduced(Lraw(last)), F(0))) => last.result.lon = TwoPi

====
